---------------------------- MODULE Spec2Model ----------------------------
(***************************************************************************)
(* Session identifier utilities (utils/suid.py) and the rlsapi v1 infer    *)
(* request model (models/rlsapi/requests.py).                              *)
(*                                                                         *)
(* A string is a sequence of one-character strings.  Every operation of    *)
(* the two files is an action that appends one call record to `calls`      *)
(* (identifier utilities) or advances the request life cycle `pc`.         *)
(***************************************************************************)
EXTENDS Naturals, Sequences, FiniteSets

VARIABLES
    candidate,  \* the identifier handed to the utilities by the caller
    calls,      \* the calls made so far: [op, arg, res], oldest first
    payload,    \* the decoded payload handed to RlsapiV1InferRequest(...)
    pc,         \* "payload" | "constructed" | "rejected" | "combined"
    requests,   \* {} or {the constructed RlsapiV1InferRequest}
    errors,     \* {} or {the validation error raised by the construction}
    combined    \* {} or {the value returned by get_input_source()}

vars == <<candidate, calls, payload, pc, requests, errors, combined>>

---------------------------------------------------------------------------
(* Bounds of the model.                                                    *)

\* Calls made on one identifier.
MaxCalls == 3
\* Length of the question of a payload.
MaxLen == 3
\* Length of each context field (stdin, attachment contents, terminal output).
MaxCtxLen == 1

(* Constants of the program.                                               *)

\* len(hex_part) == 48
HexLen == 48
\* suid[5:], conversation_id[5:]
ConvPrefixLen == 5
\* uuid.UUID: len(hex) != 32
UuidHexLen == 32
\* Field(..., min_length=1)
MinLength == 1

---------------------------------------------------------------------------
(* Characters and strings.                                                 *)

Conv == <<"c", "o", "n", "v", "_">>

HexDigits ==
    {"0", "1", "2", "3", "4", "5", "6", "7", "8", "9",
     "a", "b", "c", "d", "e", "f", "A", "B", "C", "D", "E", "F"}

\* The characters str.strip() and int() treat as white space, as far as the
\* inputs of the model use them.
Whitespace == {" ", "\t", "\n"}

\* str.startswith(p)
StartsWith(s, p) == Len(s) >= Len(p) /\ SubSeq(s, 1, Len(p)) = p

\* s[n:]
DropFirst(s, n) == SubSeq(s, n + 1, Len(s))

RECURSIVE LStripChars(_, _)
LStripChars(s, chars) ==
    IF s # <<>> /\ Head(s) \in chars THEN LStripChars(Tail(s), chars) ELSE s

RECURSIVE RStripChars(_, _)
RStripChars(s, chars) ==
    IF s # <<>> /\ s[Len(s)] \in chars
    THEN RStripChars(SubSeq(s, 1, Len(s) - 1), chars)
    ELSE s

\* str.strip(chars)
StripChars(s, chars) == RStripChars(LStripChars(s, chars), chars)

\* str.replace(old, ""): every non-overlapping occurrence, left to right
RECURSIVE RemoveAll(_, _)
RemoveAll(s, old) ==
    IF Len(s) < Len(old) THEN s
    ELSE IF StartsWith(s, old) THEN RemoveAll(DropFirst(s, Len(old)), old)
    ELSE <<Head(s)>> \o RemoveAll(Tail(s), old)

---------------------------------------------------------------------------
(* int(text, 16): TRUE when the text parses, FALSE when it raises          *)
(* ValueError.  White space around the number, a sign, a 0x/0X prefix and  *)
(* single underscores between digits (one also right after the prefix) are *)
(* accepted, as Python accepts them.                                       *)

IntDigitsOk(d) ==
    /\ d # <<>>
    /\ d[1] # "_"
    /\ d[Len(d)] # "_"
    /\ \A i \in 1..Len(d) : d[i] \in HexDigits \cup {"_"}
    /\ \A i \in 1..(Len(d) - 1) : ~(d[i] = "_" /\ d[i + 1] = "_")

IntBase16Parses(text) ==
    LET stripped == StripChars(text, Whitespace)
        unsigned == IF stripped # <<>> /\ stripped[1] \in {"+", "-"}
                    THEN Tail(stripped) ELSE stripped
        prefixed == /\ Len(unsigned) >= 2
                    /\ unsigned[1] = "0"
                    /\ unsigned[2] \in {"x", "X"}
        afterPfx == IF prefixed THEN DropFirst(unsigned, 2) ELSE unsigned
        digits   == IF prefixed /\ afterPfx # <<>> /\ afterPfx[1] = "_"
                    THEN Tail(afterPfx) ELSE afterPfx
    IN  IntDigitsOk(digits)

(* uuid.UUID(text): TRUE when the text parses, FALSE when it raises        *)
(* ValueError.  32 characters always denote a 128-bit value, so the range  *)
(* check of uuid.UUID never fails after the length check.                  *)
UuidParses(text) ==
    LET noUrn    == RemoveAll(RemoveAll(text, <<"u", "r", "n", ":">>),
                              <<"u", "u", "i", "d", ":">>)
        noBraces == StripChars(noUrn, {"{", "}"})
        hex      == RemoveAll(noBraces, <<"-">>)
    IN  Len(hex) = UuidHexLen /\ IntBase16Parses(hex)

---------------------------------------------------------------------------
(* utils/suid.py                                                           *)

\* hex_part = suid[5:] if suid.startswith("conv_") else suid
hex_part(suid) ==
    IF StartsWith(suid, Conv) THEN DropFirst(suid, ConvPrefixLen) ELSE suid

\* Candidates are strings, so the isinstance guard always passes.
check_suid(suid) ==
    IF Len(hex_part(suid)) = HexLen
    THEN IntBase16Parses(hex_part(suid))
    ELSE UuidParses(suid)

normalize_conversation_id_Never(conversation_id) == conversation_id

normalize_conversation_id_OffByOne(conversation_id) ==
    IF StartsWith(conversation_id, Conv)
    THEN DropFirst(conversation_id, ConvPrefixLen - 1)
    ELSE conversation_id

normalize_conversation_id(conversation_id) ==
    IF StartsWith(conversation_id, Conv)
    THEN DropFirst(conversation_id, ConvPrefixLen)
    ELSE conversation_id

to_llama_stack_conversation_id_Always(conversation_id) ==
    Conv \o conversation_id

to_llama_stack_conversation_id(conversation_id) ==
    IF ~StartsWith(conversation_id, Conv)
    THEN Conv \o conversation_id
    ELSE conversation_id

\* The 16 random bytes of uuid.uuid4(), as 32 nibbles; the model draws them
\* from a few patterns.
RandomNibbles ==
    {[i \in 1..UuidHexLen |-> (k + i * m) % 16] : k \in {0, 7, 15}, m \in {0, 1, 5}}

HexLower ==
    <<"0", "1", "2", "3", "4", "5", "6", "7", "8", "9",
      "a", "b", "c", "d", "e", "f">>

\* str(uuid.uuid4()): the version nibble is set to 4, the two top bits of the
\* variant nibble to 10, and the value is rendered as '%032x' in groups of
\* 8-4-4-4-12 joined by hyphens.
get_suid(random) ==
    LET versioned == [i \in 1..UuidHexLen |->
                        IF i = 13 THEN 4
                        ELSE IF i = 17 THEN 8 + (random[i] % 4)
                        ELSE random[i]]
        hex == [i \in 1..UuidHexLen |-> HexLower[versioned[i] + 1]]
    IN  SubSeq(hex, 1, 8) \o <<"-">> \o SubSeq(hex, 9, 12) \o <<"-">>
        \o SubSeq(hex, 13, 16) \o <<"-">> \o SubSeq(hex, 17, 20) \o <<"-">>
        \o SubSeq(hex, 21, 32)

---------------------------------------------------------------------------
(* The identifiers the caller hands in: 48-character tokens and their      *)
(* neighbours (one character short or long, 32 and 33 characters), with    *)
(* zero, one or two conv_ prefixes and with the characters int() and       *)
(* uuid.UUID treat specially at the front, in the middle and at the end;   *)
(* and UUID texts.                                                         *)

HexCycle == <<"5", "a", "0", "F", "9", "c", "3", "B", "e", "7", "D", "1">>

HexRun(n) == [i \in 1..n |-> HexCycle[((i - 1) % Len(HexCycle)) + 1]]

Wraps == {<<>>, Conv, Conv \o Conv}
Leads == {<<>>, <<"0", "x">>, <<"+">>, <<"-">>, <<" ">>, <<"_">>, <<"g">>}
Mids == {<<>>, <<"_">>, <<"-">>, <<"g">>}
Trails == {<<>>, <<"\n">>, <<"g">>}
TokenLens == {HexLen - 1, HexLen, HexLen + 1, UuidHexLen, UuidHexLen + 1}

Token(lead, mid, trail, n) ==
    LET rest == n - Len(lead) - Len(mid) - Len(trail)
    IN  lead \o HexRun(rest \div 2) \o mid \o HexRun(rest - (rest \div 2)) \o trail

Tokens ==
    {w \o Token(l, m, t, n) :
        w \in Wraps, l \in Leads, m \in Mids, t \in Trails, n \in TokenLens}

\* A run of hex digits cut into groups joined by hyphens.
RECURSIVE Grouped(_, _)
Grouped(s, sizes) ==
    IF Len(sizes) <= 1 THEN s
    ELSE SubSeq(s, 1, Head(sizes)) \o <<"-">>
         \o Grouped(DropFirst(s, Head(sizes)), Tail(sizes))

CanonicalGroups == <<8, 4, 4, 4, 12>>

Uuids ==
    LET canon == Grouped(HexRun(UuidHexLen), CanonicalGroups)
    IN  { canon,
          Conv \o canon,
          <<"{">> \o canon \o <<"}">>,
          <<"u", "r", "n", ":", "u", "u", "i", "d", ":">> \o canon,
          Grouped(HexRun(UuidHexLen), <<4, 8, 4, 4, 12>>),
          Grouped(HexRun(UuidHexLen), <<8, 4, 4, 16>>),
          Grouped(HexRun(UuidHexLen - 1), CanonicalGroups),
          Grouped(HexRun(UuidHexLen + 1), CanonicalGroups),
          Grouped(<<"g">> \o HexRun(UuidHexLen - 1), CanonicalGroups),
          Grouped(<<"+">> \o HexRun(UuidHexLen - 1), CanonicalGroups),
          Grouped(HexRun(HexLen), <<8, 4, 4, 4, 12, 16>>) }

Candidates == Tokens \cup Uuids \cup {<<>>, Conv}

---------------------------------------------------------------------------
(* The caller of the identifier utilities: each call is made on the        *)
(* identifier at hand, which a conversion replaces by its result.          *)

StringOps ==
    {"get_suid", "normalize_conversation_id", "to_llama_stack_conversation_id"}

RECURSIVE LastString(_, _)
LastString(log, start) ==
    IF log = <<>> THEN start
    ELSE IF log[Len(log)].op \in StringOps THEN log[Len(log)].res
    ELSE LastString(SubSeq(log, 1, Len(log) - 1), start)

Current == LastString(calls, candidate)

Call(op, arg, res) == [op |-> op, arg |-> arg, res |-> res]

NoPayload ==
    [has_question |-> FALSE, question |-> <<>>, stdin |-> <<>>,
     contents |-> <<>>, output |-> <<>>, skip_rag |-> FALSE]

RequestIdle ==
    /\ payload = NoPayload
    /\ pc = "payload"
    /\ requests = {}
    /\ errors = {}
    /\ combined = {}

InitSession ==
    /\ candidate \in Candidates
    /\ calls = <<>>
    /\ RequestIdle

CheckSuid ==
    /\ Len(calls) < MaxCalls
    /\ calls' = Append(calls, Call("check_suid", Current, check_suid(Current)))
    /\ UNCHANGED <<candidate, payload, pc, requests, errors, combined>>

Normalize ==
    /\ Len(calls) < MaxCalls
    /\ calls' = Append(calls, Call("normalize_conversation_id", Current,
                                   normalize_conversation_id(Current)))
    /\ UNCHANGED <<candidate, payload, pc, requests, errors, combined>>

ToLlamaStack ==
    /\ Len(calls) < MaxCalls
    /\ calls' = Append(calls, Call("to_llama_stack_conversation_id", Current,
                                   to_llama_stack_conversation_id(Current)))
    /\ UNCHANGED <<candidate, payload, pc, requests, errors, combined>>

NextSession == CheckSuid \/ Normalize \/ ToLlamaStack

SpecSession == InitSession /\ [][NextSession]_vars

(* A caller that generates its identifiers and validates them.             *)

InitGenerate ==
    /\ candidate = <<>>
    /\ calls = <<>>
    /\ RequestIdle

GetSuid ==
    /\ Len(calls) < MaxCalls
    /\ \E random \in RandomNibbles :
           calls' = Append(calls, Call("get_suid", <<>>, get_suid(random)))
    /\ UNCHANGED <<candidate, payload, pc, requests, errors, combined>>

NextGenerate == GetSuid \/ CheckSuid

SpecGenerate == InitGenerate /\ [][NextGenerate]_vars

---------------------------------------------------------------------------
(* models/rlsapi/requests.py                                               *)

QuestionMessage == "Question cannot be empty or whitespace-only"

Raised(msg) == [raised |-> TRUE, value |-> <<>>, msg |-> msg]
Returned(value) == [raised |-> FALSE, value |-> value, msg |-> ""]

validate_question_NoStrip(v) ==
    LET stripped == StripChars(v, Whitespace)
    IN  IF stripped = <<>> THEN Raised(QuestionMessage) ELSE Returned(v)

validate_question_CheckBeforeStrip(v) ==
    IF v = <<>>
    THEN Raised(QuestionMessage)
    ELSE Returned(StripChars(v, Whitespace))

\* @field_validator("question"): v.strip(), ValueError when nothing is left
validate_question(v) ==
    LET stripped == StripChars(v, Whitespace)
    IN  IF stripped = <<>> THEN Raised(QuestionMessage) ELSE Returned(stripped)

ValidationError(type, msg) ==
    [requests |-> {},
     errors |-> {[loc |-> "question", type |-> type, msg |-> msg]}]

\* RlsapiV1InferRequest(**p): question is required (Field(...)), then
\* constrained (min_length), then handed to the field validator, which runs
\* after the field's own validation; context fields and skip_rag are stored
\* as given.
RlsapiV1InferRequest(p) ==
    IF ~p.has_question
    THEN ValidationError("missing", "Field required")
    ELSE IF Len(p.question) < MinLength
    THEN ValidationError("string_too_short",
                         "String should have at least 1 character")
    ELSE LET validated == validate_question(p.question)
         IN  IF validated.raised
             THEN ValidationError("value_error", validated.msg)
             ELSE [requests |->
                      {[question |-> validated.value,
                        context |-> [stdin |-> p.stdin,
                                     attachments |-> [contents |-> p.contents],
                                     terminal |-> [output |-> p.output]],
                        skip_rag |-> p.skip_rag]},
                   errors |-> {}]

\* "\n\n".join(sources)
RECURSIVE Join(_, _)
Join(sources, sep) ==
    IF sources = <<>> THEN <<>>
    ELSE IF Len(sources) = 1 THEN sources[1]
    ELSE sources[1] \o sep \o Join(Tail(sources), sep)

get_input_source_KeepEmpty(self) ==
    Join(<<self.question, self.context.stdin>>
         \o (IF self.context.attachments.contents # <<>>
             THEN <<self.context.attachments.contents>> ELSE <<>>)
         \o (IF self.context.terminal.output # <<>>
             THEN <<self.context.terminal.output>> ELSE <<>>),
         <<"\n", "\n">>)

get_input_source(self) ==
    Join(<<self.question>>
         \o (IF self.context.stdin # <<>>
             THEN <<self.context.stdin>> ELSE <<>>)
         \o (IF self.context.attachments.contents # <<>>
             THEN <<self.context.attachments.contents>> ELSE <<>>)
         \o (IF self.context.terminal.output # <<>>
             THEN <<self.context.terminal.output>> ELSE <<>>),
         <<"\n", "\n">>)

\* The strings of at most n characters over chars.
Strings(chars, n) == UNION {[1..k -> chars] : k \in 0..n}

Payloads ==
    {p \in [has_question : BOOLEAN,
            question : Strings({"q", " ", "\n"}, MaxLen),
            stdin : Strings({"s", " "}, MaxCtxLen),
            contents : Strings({"c", " "}, MaxCtxLen),
            output : Strings({"t", " "}, MaxCtxLen),
            skip_rag : BOOLEAN] :
        ~p.has_question => p.question = <<>>}

InitRequest ==
    /\ candidate = <<>>
    /\ calls = <<>>
    /\ payload \in Payloads
    /\ pc = "payload"
    /\ requests = {}
    /\ errors = {}
    /\ combined = {}

Construct ==
    /\ pc = "payload"
    /\ LET made == RlsapiV1InferRequest(payload)
       IN  /\ requests' = made.requests
           /\ errors' = made.errors
           /\ pc' = IF made.errors = {} THEN "constructed" ELSE "rejected"
    /\ UNCHANGED <<candidate, calls, payload, combined>>

GetInputSource ==
    /\ pc = "constructed"
    /\ combined' = {get_input_source(r) : r \in requests}
    /\ pc' = "combined"
    /\ UNCHANGED <<candidate, calls, payload, requests, errors>>

NextRequest == Construct \/ GetInputSource

SpecRequest == InitRequest /\ [][NextRequest]_vars

---------------------------------------------------------------------------
(* Properties of the request model, under SpecRequest.                     *)

IsBlank(q) == \A i \in 1..Len(q) : q[i] \in Whitespace

\* t is q without its leading and trailing white space, and is not empty.
IsTrimOf(t, q) ==
    /\ t # <<>>
    /\ t[1] \notin Whitespace
    /\ t[Len(t)] \notin Whitespace
    /\ \E i \in 0..Len(q) :
          /\ i + Len(t) <= Len(q)
          /\ SubSeq(q, i + 1, i + Len(t)) = t
          /\ IsBlank(SubSeq(q, 1, i))
          /\ IsBlank(SubSeq(q, i + Len(t) + 1, Len(q)))

\* C1: constructing a request with question q succeeds if and only if q is
\* not empty or white space only; the stored question is then q without its
\* leading and trailing white space; otherwise the construction fails and no
\* request exists.
C1_ConstructionTrimsQuestion ==
    (pc # "payload" /\ payload.has_question) =>
        /\ (requests # {}) <=> ~IsBlank(payload.question)
        /\ \A r \in requests : IsTrimOf(r.question, payload.question)
        /\ IsBlank(payload.question) => (requests = {} /\ errors # {})

C1_Witness ==
    /\ pc = "constructed"
    /\ payload.has_question
    /\ Len(payload.question) = 3
    /\ payload.question[1] \in Whitespace
    /\ payload.question[3] \in Whitespace
    /\ \E r \in requests : r.question = <<"q">>

\* A context field's part of the combined input: nothing when the field is
\* empty, else two newlines and the field.
Segment(field) == IF field = <<>> THEN <<>> ELSE <<"\n", "\n">> \o field

\* C2: the combined input is the stored (trimmed) question followed by stdin,
\* attachment contents and terminal output in this order, each included if
\* and only if it is not empty and each preceded by exactly two newlines; it
\* begins with the trimmed question.
C2_CombinedInputJoinsNonEmptySegments ==
    pc = "combined" =>
        \A r \in requests :
            /\ IsTrimOf(r.question, payload.question)
            /\ combined = {r.question \o Segment(payload.stdin)
                                      \o Segment(payload.contents)
                                      \o Segment(payload.output)}
            /\ \A c \in combined : StartsWith(c, r.question)
            /\ (payload.stdin = <<>> /\ payload.contents = <<>>
                    /\ payload.output = <<>>) => combined = {r.question}

C2_Witness ==
    /\ pc = "combined"
    /\ payload.stdin # <<>>
    /\ payload.contents = <<>>
    /\ payload.output # <<>>
    /\ \E r \in requests :
          combined = {r.question \o <<"\n", "\n">> \o payload.stdin
                                 \o <<"\n", "\n">> \o payload.output}

Fails == ~payload.has_question \/ IsBlank(payload.question)

---------------------------------------------------------------------------
(* Properties of the identifier utilities, under SpecSession.              *)

IsCall(i, op) == calls[i].op = op

AllHex(s) == \A i \in 1..Len(s) : s[i] \in HexDigits

\* 8-4-4-4-12 hex digits joined by hyphens
IsCanonicalUuid(s) ==
    /\ Len(s) = 36
    /\ \A i \in 1..36 :
          IF i \in {9, 14, 19, 24} THEN s[i] = "-" ELSE s[i] \in HexDigits

\* C3: when the candidate without one leading conv_ has exactly 48
\* characters, check_suid returns true if and only if all 48 are hex digits.
C3_Token48IffAllHex ==
    \A i \in DOMAIN calls :
        (IsCall(i, "check_suid") /\ Len(hex_part(calls[i].arg)) = 48) =>
            (calls[i].res <=> AllHex(hex_part(calls[i].arg)))

\* C4: when the candidate without one leading conv_ does not have exactly 48
\* characters, check_suid returns true if and only if the whole candidate is
\* a canonical hyphenated 8-4-4-4-12 UUID.
C4_OtherwiseIffCanonicalUuid ==
    \A i \in DOMAIN calls :
        (IsCall(i, "check_suid") /\ Len(hex_part(calls[i].arg)) # 48) =>
            (calls[i].res <=> IsCanonicalUuid(calls[i].arg))

\* C6: the result of normalize_conversation_id never begins with conv_.
C6_NormalizedNeverPrefixed ==
    \A i \in DOMAIN calls :
        IsCall(i, "normalize_conversation_id") => ~StartsWith(calls[i].res, Conv)

\* C7: normalizing the external form of an identifier that does not begin
\* with conv_ gives the identifier back.
C7_NormalizeUndoesExternalForm ==
    \A j, k \in DOMAIN calls :
        ( /\ IsCall(j, "to_llama_stack_conversation_id")
          /\ ~StartsWith(calls[j].arg, Conv)
          /\ IsCall(k, "normalize_conversation_id")
          /\ calls[k].arg = calls[j].res ) =>
            calls[k].res = calls[j].arg

C7_Witness ==
    /\ Len(calls) >= 2
    /\ IsCall(1, "to_llama_stack_conversation_id")
    /\ Len(calls[1].arg) = HexLen
    /\ ~StartsWith(calls[1].arg, Conv)
    /\ IsCall(2, "normalize_conversation_id")
    /\ calls[2].arg = calls[1].res
    /\ calls[2].arg # calls[1].arg

\* C8: the external form always begins with conv_, and taking the external
\* form of an external form changes nothing.
C8_ExternalFormIdempotent ==
    \A j \in DOMAIN calls :
        IsCall(j, "to_llama_stack_conversation_id") =>
            /\ StartsWith(calls[j].res, Conv)
            /\ \A k \in DOMAIN calls :
                  ( /\ IsCall(k, "to_llama_stack_conversation_id")
                    /\ calls[k].arg = calls[j].res ) =>
                      calls[k].res = calls[j].res

C8_Witness ==
    /\ Len(calls) >= 2
    /\ IsCall(1, "to_llama_stack_conversation_id")
    /\ ~StartsWith(calls[1].arg, Conv)
    /\ IsCall(2, "to_llama_stack_conversation_id")
    /\ calls[2].arg = calls[1].res
    /\ calls[2].res = Conv \o calls[1].arg

\* C10: an identifier that check_suid accepts is still accepted after
\* normalize_conversation_id.
C10_NormalizePreservesValidity ==
    \A i, j, k \in DOMAIN calls :
        ( /\ IsCall(i, "check_suid")
          /\ calls[i].res
          /\ IsCall(j, "normalize_conversation_id")
          /\ calls[j].arg = calls[i].arg
          /\ IsCall(k, "check_suid")
          /\ calls[k].arg = calls[j].res ) =>
            calls[k].res

C10_Witness ==
    /\ Len(calls) = 3
    /\ IsCall(1, "check_suid")
    /\ calls[1].res
    /\ IsCall(2, "normalize_conversation_id")
    /\ calls[2].arg = calls[1].arg
    /\ calls[2].res # calls[2].arg
    /\ IsCall(3, "check_suid")
    /\ calls[3].arg = calls[2].res
    /\ calls[3].res

---------------------------------------------------------------------------
(* Properties of the generator, under SpecGenerate.                        *)

\* Every generated value is a version-4 UUID in canonical lower-case form,
\* and check_suid accepts it.
GeneratedAreValidV4 ==
    \A i \in DOMAIN calls :
        /\ IsCall(i, "get_suid") =>
              /\ IsCanonicalUuid(calls[i].res)
              /\ \A n \in 1..Len(calls[i].res) :
                    calls[i].res[n] \notin {"A", "B", "C", "D", "E", "F"}
              /\ calls[i].res[15] = "4"
              /\ calls[i].res[20] \in {"8", "9", "a", "b"}
        /\ (IsCall(i, "check_suid") /\ i > 1 /\ IsCall(i - 1, "get_suid")) =>
              calls[i].res

\* No two generated values are equal: the random source decides this, not
\* the code, and the model's draws do repeat.
GeneratedAreDistinct ==
    \A i, j \in DOMAIN calls :
        (IsCall(i, "get_suid") /\ IsCall(j, "get_suid") /\ i # j) =>
            calls[i].res # calls[j].res

=============================================================================
